---- MODULE Spec2Model ----
(***************************************************************************)
(* Model of the llm-code-deployer task pipeline (the server module that    *)
(* imports generateSite): POST /task -> ensureRepo -> postWithBackoff ->   *)
(* HTTP response, run by concurrent invocations against one remote         *)
(* repository and one callback target.  Every await of the handler is one  *)
(* atomic step; the remote repository, the callback target and the clock   *)
(* are the environment.                                                    *)
(***************************************************************************)
EXTENDS Integers, Sequences, FiniteSets, TLC

\* ------------------------------------------------------------------ bounds
\* Invocations of POST /task for the same task value (same repository).
Procs == {1, 2}
\* Briefs a request may carry (they decide the generated content): the first
\* invocation carries one brief, the second the same one or another.
Briefs(p) == IF p = 1 THEN {"sales"} ELSE {"sales", "markdown"}
\* Callback targets (evaluation_url): "healthy" answers 2xx at once, "flaky" may
\* answer anything at every attempt. The second invocation names the healthy one.
Urls(p) == IF p = 1 THEN {"flaky"} ELSE {"healthy"}
\* How many times the calendar year may change while the model runs.
MaxYearTicks == 1
\* The highest round a single submission may carry.
MaxRound == 3
\* Default branch names a repository of the account may report.
BranchNames == {"main", "trunk"}

\* ------------------------------------------------------- program constants
WorkflowPath == ".github/workflows/deploy-pages.yml"
LicensePath == "LICENSE"
IndexPath == "site/index.html"
AppJsPath == "site/app.js"
ReadmePath == "README.md"
\* A path of the repository the pipeline never names.
OtherPath == "docs/notes.md"

AllPaths == {WorkflowPath, LicensePath, IndexPath, AppJsPath, ReadmePath, OtherPath}

\* Object.entries(files) of generateSite: insertion order of the literal.
SiteFiles == <<IndexPath, AppJsPath>>

\* The order of index.js (legacy server): site files before the license.
LegacyWriteOrder == <<WorkflowPath>> \o SiteFiles \o <<LicensePath, ReadmePath>>

\* ensureRepo: workflow, license, site files, README.
WriteOrder == <<WorkflowPath, LicensePath>> \o SiteFiles \o <<ReadmePath>>

\* postWithBackoff with one delay fewer.
ShortDelays == <<1, 2, 4, 8, 16>>

\* postWithBackoff: const delays = [1, 2, 4, 8, 16, 32]
Delays == <<1, 2, 4, 8, 16, 32>>

\* ------------------------------------------------------------ file contents
\* A stored blob; every blob has the same three fields.
Blob(kind, brief, yr) == [kind |-> kind, brief |-> brief, year |-> yr]
Absent == Blob("absent", "", 0)
AutoInitReadme == Blob("autoinit", "", 0)
OldNotes == Blob("notes", "", 0)

\* buildLicense: the template with [year] := yearNow() and [fullname] := owner.
BuildLicense(yr) == Blob("license", "", yr)

\* buildReadme: boilerplate + brief + checks + pages URL.
BuildReadme(brief) == Blob("readme", brief, 0)

\* --------------------------------------------------------- remote contents API
\* The blob sha of a stored file: content-addressed, so equal content has equal sha.
NoSha == [blob |-> Absent]
ShaOf(content) == [blob |-> content]

\* createOrUpdateFileContents: accepted when the sha given is the stored blob's
\* sha (none given for a path that does not exist).
WriteAccepted(stored, given) == given = ShaOf(stored)

\* A commit on the branch: the n-th accepted write of invocation `by`;
\* by = 0 is the commit the repository had before (auto_init or earlier history).
Commit(by, n) == [by |-> by, n |-> n]
InitCommit == Commit(0, 0)

\* ------------------------------------------------------------------- strings
\* A string is the sequence of its characters.
UpperAlphabet == <<"A", "B", "C", "D", "E", "F", "G", "H", "I", "J", "K", "L", "M", "N", "O", "P", "Q", "R", "S", "T", "U", "V", "W", "X", "Y", "Z">>
LowerAlphabet == <<"a", "b", "c", "d", "e", "f", "g", "h", "i", "j", "k", "l", "m", "n", "o", "p", "q", "r", "s", "t", "u", "v", "w", "x", "y", "z">>

\* String.prototype.toLowerCase
LowerChar(c) ==
  IF \E k \in 1..26 : UpperAlphabet[k] = c
    THEN LowerAlphabet[CHOOSE k \in 1..26 : UpperAlphabet[k] = c]
    ELSE c
ToLower(s) == [k \in 1..Len(s) |-> LowerChar(s[k])]

\* s has sub at position k (from 1)
StartsAt(s, sub, k) ==
  /\ k >= 1 /\ k + Len(sub) - 1 <= Len(s)
  /\ \A j \in 1..Len(sub) : s[k + j - 1] = sub[j]

\* String.prototype.includes
Includes(s, sub) == \E k \in 1..(Len(s) + 1) : StartsAt(s, sub, k)

\* String.prototype.indexOf, counted from 1; 0 when there is no occurrence
IndexOf(s, sub) ==
  IF Includes(s, sub)
    THEN CHOOSE k \in 1..(Len(s) + 1) :
           StartsAt(s, sub, k) /\ \A j \in 1..(k - 1) : ~StartsAt(s, sub, j)
    ELSE 0

\* The concatenation of a sequence of strings
RECURSIVE Concat(_)
Concat(ws) == IF ws = <<>> THEN <<>> ELSE Head(ws) \o Concat(Tail(ws))

\* All sequences over S of length at most n
SeqsUpTo(S, n) == UNION {[1..k -> S] : k \in 0..n}

\* ----------------------------------------------- slugifyTask, deriveRepoName
\* .slice(0, 55) of slugifyTask and .slice(0, 60) of deriveRepoName
SlugCap == 55
NameCap == 60
NamePrefix == <<"l", "l", "m", "-">>
DefaultSlug == <<"t", "a", "s", "k">>

\* The class [a-z0-9\-_] of slugifyTask
SlugChars ==
  {LowerAlphabet[k] : k \in 1..26}
    \cup {"0", "1", "2", "3", "4", "5", "6", "7", "8", "9", "-", "_"}

\* The class [a-zA-Z0-9-_] of the legacy repoNameFor
LegacyNameChars == SlugChars \cup {UpperAlphabet[k] : k \in 1..26}

\* String.prototype.slice(0, n)
SliceHead(s, n) == SubSeq(s, 1, IF Len(s) < n THEN Len(s) ELSE n)

\* replace(/[^a-z0-9\-_]+/g, '-'): every run of other characters becomes one '-'
DashRuns(s) ==
  LET kept == SelectSeq([k \in 1..Len(s) |-> k],
                        LAMBDA k : s[k] \in SlugChars \/ k = Len(s) \/ s[k + 1] \in SlugChars)
  IN  [j \in 1..Len(kept) |-> IF s[kept[j]] \in SlugChars THEN s[kept[j]] ELSE "-"]

\* replace(/^-+|-+$/g, ''): the dashes at both ends are removed
StripDashes(s) ==
  LET others == {k \in 1..Len(s) : s[k] # "-"}
  IN  IF others = {} THEN <<>>
      ELSE SubSeq(s, CHOOSE k \in others : \A j \in others : k <= j,
                     CHOOSE k \in others : \A j \in others : k >= j)

\* A task value of a request body: a string, or a number (its decimal digits).
StringTask(cs) == [type |-> "string", chars |-> cs]
NumberTask(digits) == [type |-> "number", chars |-> digits]

\* String(task || ''): a falsy task ('' or 0) becomes the empty string
TaskString(task) ==
  IF task.chars = <<>> \/ (task.type = "number" /\ task.chars = <<"0">>)
    THEN <<>> ELSE task.chars

\* slugifyTask
SlugifyTask(task) ==
  LET s == StripDashes(DashRuns(ToLower(TaskString(task))))
      short == SliceHead(s, SlugCap)
  IN  IF short = <<>> THEN DefaultSlug ELSE short

\* repoNameFor of the legacy server: every other character becomes '-', the
\* result is cut at 60 and then prefixed.
DeriveRepoNameLegacy(task) ==
  NamePrefix \o SliceHead([k \in 1..Len(task.chars) |->
                             IF task.chars[k] \in LegacyNameChars THEN task.chars[k] ELSE "-"],
                          NameCap)

\* deriveRepoName
DeriveRepoName(task) == SliceHead(NamePrefix \o SlugifyTask(task), NameCap)

\* ------------------------------------------------------------------ responses
NoResponse == [status |-> 0, ok |-> FALSE, payload |-> FALSE, note |-> FALSE]

\* The legacy handler's catch: a failed delivery reaches the caller as an error.
TaskResponseFatal(delivered) ==
  IF delivered
    THEN [status |-> 200, ok |-> TRUE, payload |-> TRUE, note |-> FALSE]
    ELSE [status |-> 500, ok |-> FALSE, payload |-> FALSE, note |-> FALSE]

\* res.status(200).json({ ok: true, payload, note: ok ? undefined : '...' })
TaskResponse(delivered) ==
  [status |-> 200, ok |-> TRUE, payload |-> TRUE, note |-> ~delivered]

\* res.status(500).json({ ok: false, error: 'internal error' })
ErrorResponse == [status |-> 500, ok |-> FALSE, payload |-> FALSE, note |-> FALSE]

\* res.status(500).json({ ok: false, error: e.message }) of the legacy handler
ErrorBodyLegacy(e) == e

\* The error member of the 500 answer: a fixed text, whatever was caught.
ErrorBody(e) == "internal error"

\* ----------------------------------------------------------- request, payload
\* process.env.GITHUB_OWNER; the server exits at start when it is empty.
GithubOwner == "octo"

\* The task value every modelled submission carries.
Task == StringTask(<<"T", "o", "-", "D", "o", "!">>)

\* The body of the POST /task of invocation p, the round apart.
Request(p, round) ==
  [email |-> "dev@example.com", task |-> Task, round |-> round,
   nonce |-> IF p = 1 THEN "nonce-1" ELSE "nonce-2"]

\* A template literal: the characters put together as one string
RECURSIVE JoinFrom(_, _)
JoinFrom(cs, k) == IF k > Len(cs) THEN "" ELSE cs[k] \o JoinFrom(cs, k + 1)
Join(cs) == JoinFrom(cs, 1)

\* ensureRepo: const repo = deriveRepoName(task), for the task of the model
TaskRepo == Join(DeriveRepoName(Task))

\* ensureRepo's return value
RepoInfo(repo, commitSha) ==
  [owner |-> GithubOwner, repo |-> repo, commitSha |-> commitSha,
   pagesUrl |-> "https://" \o GithubOwner \o ".github.io/" \o repo \o "/"]

\* ensureRepo: the message of every commit of the invocation
CommitMessage(round) == IF round = 2 THEN "feat: round2 update" ELSE "feat: initial app"

\* The payload with the repo_url of the branch taken for an empty owner.
PayloadNoOwner(request, info) ==
  [email |-> request.email, task |-> request.task, round |-> request.round,
   nonce |-> request.nonce,
   repo_url |-> "https://" \o "github.com" \o "/" \o info.repo,
   commit_sha |-> info.commitSha, pages_url |-> info.pagesUrl]

\* The handler's payload
Payload(request, info) ==
  [email |-> request.email, task |-> request.task, round |-> request.round,
   nonce |-> request.nonce,
   repo_url |-> "https://" \o ("github.com/" \o GithubOwner) \o "/" \o info.repo,
   commit_sha |-> info.commitSha, pages_url |-> info.pagesUrl]

NoPayload ==
  [email |-> "", task |-> StringTask(<<>>), round |-> 0, nonce |-> "",
   repo_url |-> "", commit_sha |-> Commit(-1, -1), pages_url |-> ""]

\* ------------------------------------------------------------------ admission
\* process.env.SERVICE_SECRET; the server exits at start when it is empty.
ServiceSecret == "s3cret"

\* validateBody: const required = [...]
RequiredFields == <<"email", "task", "round", "nonce", "evaluation_url">>

\* A request body, as far as validation looks at it: the required fields that
\* are undefined, null or '', and whether round is a number.
Body(missing, roundIsNumber) == [missing |-> missing, roundIsNumber |-> roundIsNumber]
CompleteBody == Body({}, TRUE)

\* validateBody: one error for each missing field, in the order of the list,
\* then one for a round that is not a number.
ValidateBody(body) ==
  LET miss == SelectSeq(RequiredFields, LAMBDA k : k \in body.missing)
  IN  [k \in 1..Len(miss) |-> "missing field: " \o miss[k]]
        \o (IF body.roundIsNumber THEN <<>> ELSE <<"round must be a number">>)

\* errors.join('; ')
RECURSIVE JoinErrors(_)
JoinErrors(errors) ==
  IF errors = <<>> THEN ""
  ELSE IF Len(errors) = 1 THEN errors[1]
  ELSE errors[1] \o "; " \o JoinErrors(Tail(errors))

\* A handler that validates the body before it looks at the secret.
AdmissionFieldsFirst(secret, errors) ==
  CASE errors # <<>> -> 400
    [] secret = "" \/ secret # ServiceSecret -> 403
    [] OTHER -> 0

\* The handler's checks: the status of the rejection, 0 when the request is
\* let through. The secret is looked at first.
Admission(secret, errors) ==
  CASE secret = "" \/ secret # ServiceSecret -> 403
    [] errors # <<>> -> 400
    [] OTHER -> 0

\* res.status(403 | 400).json({ ok: false, error })
RejectResponse(status) == [status |-> status, ok |-> FALSE, payload |-> FALSE, note |-> FALSE]
RejectText(status, errors) == IF status = 403 THEN "invalid secret" ELSE JoinErrors(errors)

\* ------------------------------------------------------------ repository calls
\* private: false in createInOrg and in createForAuthenticatedUser
Visibility(private) == IF private THEN "private" ELSE "public"
CreateVisibility == Visibility(FALSE)

\* getDefaultBranch: r.data.default_branch || 'main'
DefaultBranchOf(reported) == IF reported = "" THEN "main" ELSE reported

\* git.getRef of the legacy server: heads/main whatever the repository reports
HeadRefLegacy(branch) == "heads/main"

\* ensureRepo: ref: `heads/${branch}`
HeadRef(branch) == "heads/" \o branch

\* A write that replaces the branch content by the one file written.
TreeReplaced(stored, path, content) ==
  [q \in DOMAIN stored |-> IF q = path THEN content ELSE Absent]

\* createOrUpdateFileContents, accepted: the path gets the content, every other
\* path of the branch keeps its own.
TreeAfterWrite(stored, path, content) == [stored EXCEPT ![path] = content]

\* postWithBackoff: return { ok: false, status: lastStatus, error: lastText || 'callback failed' }
NotDelivered(lastStatus, lastText) ==
  [ok |-> FALSE, status |-> lastStatus,
   error |-> IF lastText = "" THEN "callback failed" ELSE lastText]

\* ---------------------------------------------------------------------- state
VARIABLES
  repoExists,   \* the remote repository llm-<slug> exists
  tree,         \* stored content of every path on the default branch
  head,         \* the commit the default branch points to
  ownerKind,    \* the account type of GITHUB_OWNER: "User" or "Organization"
  defaultBranch, \* the default branch the remote reports for the repository
  year,         \* the calendar year, counted from the model's start
  inv,          \* per invocation: the handler's locals, position and history
  fx            \* one call of a pure function of the generator or of the name
                \* derivation: its argument and, once applied, its result

remote == <<repoExists, tree, head>>
vars == <<repoExists, tree, head, ownerKind, defaultBranch, year, inv, fx>>

EmptyTree == [p \in AllPaths |-> Absent]

\* A repository that existed before: auto_init README and one unrelated file.
PriorTree == [EmptyTree EXCEPT ![ReadmePath] = AutoInitReadme, ![OtherPath] = OldNotes]

\* No pure function is under examination.
NoCall == [op |-> "none"]

IdleInv ==
  [pc |-> "idle", brief |-> "", url |-> "", ownerType |-> "", licYear |-> -1,
   idx |-> 1, sha |-> NoSha, commitSha |-> Commit(-1, -1),
   i |-> 0, attempts |-> 0, slept |-> <<>>, lastStatus |-> 0, lastText |-> "",
   lastOutcome |-> "", notified |-> "none", response |-> NoResponse,
   \* history, read by the properties only
   written |-> <<>>, conflicts |-> 0, putFailed |-> FALSE, lookupStatus |-> 0,
   createCall |-> "", headReads |-> 0, sequelOf |-> 0,
   treeAtStart |-> EmptyTree,
   \* the request's round (0: no request was submitted), the commit message and
   \* the payload built from it; what was caught and what the caller was told
   round |-> 0, message |-> "", payload |-> NoPayload, caught |-> "", errorText |-> "",
   \* history: the messages given to createOrUpdateFileContents, the bodies posted
   messages |-> {}, sent |-> {},
   \* the request's secret and body; the branch resolved by getDefaultBranch
   secret |-> ServiceSecret, body |-> CompleteBody, branch |-> "",
   \* history: visibility asked at create, branches named in reads and writes,
   \* the ref of the head read, responses sent
   createVisibility |-> "", targets |-> {}, headRef |-> "", responses |-> 0]

\* The remote side and the clock when the server starts.
InitRemote ==
  /\ repoExists \in BOOLEAN
  /\ tree = IF repoExists THEN PriorTree ELSE EmptyTree
  /\ head = InitCommit
  /\ ownerKind \in IF repoExists THEN {"User"} ELSE {"User", "Organization"}
  /\ year = 0
  /\ fx = NoCall

\* The bodies and secrets a single submission may carry.
Secrets == {"", "guess", ServiceSecret}
Bodies ==
  {CompleteBody, Body({}, FALSE), Body({"round"}, FALSE), Body({"nonce"}, TRUE),
   Body({"email", "evaluation_url"}, TRUE), Body({"task", "round"}, FALSE)}

\* Two submissions for the task: round 1 and round 2, both with the right
\* secret and a complete body; the repository's default branch is not main.
Init ==
  /\ InitRemote
  /\ defaultBranch = "trunk"
  /\ inv = [p \in Procs |-> [IdleInv EXCEPT !.round = p]]

\* One submission for the task, of any round.
InitSolo ==
  /\ InitRemote
  /\ defaultBranch \in BranchNames
  /\ \E round \in 1..MaxRound, secret \in Secrets, body \in Bodies :
       inv = [p \in Procs |->
                IF p = 1 THEN [IdleInv EXCEPT !.round = round, !.secret = secret, !.body = body]
                         ELSE IdleInv]

\* ------------------------------------------------------------ desired content
\* generateSite: files of the template chosen from the brief, variables injected.
GenerateSite(brief) ==
  [p \in {IndexPath, AppJsPath} |->
     IF p = IndexPath THEN Blob("html", brief, 0) ELSE Blob("js", brief, 0)]

\* A README that embeds the branch head seen when it is built.
DesiredStamped(path, brief, yr) ==
  CASE path = WorkflowPath -> Blob("workflow", "", 0)
    [] path = LicensePath -> BuildLicense(yr)
    [] path = ReadmePath -> Blob("readme", brief, head.by)
    [] OTHER -> GenerateSite(brief)[path]

\* The content ensureRepo wants at a path: all of it is computed before the
\* first write, from the request and the year read by buildLicense.
Desired(path, brief, yr) ==
  CASE path = WorkflowPath -> Blob("workflow", "", 0)
    [] path = LicensePath -> BuildLicense(yr)
    [] path = ReadmePath -> BuildReadme(brief)
    [] OTHER -> GenerateSite(brief)[path]

\* ----------------------------------------------------------------- control flow
\* The legacy ensureRepo: any failed lookup leads to a create.
AfterLookupCatchAll(status) ==
  IF status = 200 THEN "getBranch" ELSE "ownerType"

\* ensureRepoExists: 200 returns the repository, 404 goes on to create it,
\* anything else is rethrown.
AfterLookup(status) ==
  CASE status = 200 -> "getBranch"
    [] status = 404 -> "ownerType"
    [] OTHER -> "throw"

\* getOwnerType: the account type, 'User' when the lookup fails.
OwnerTypeResult(answer) == IF answer = "error" THEN "User" ELSE answer

\* ensureRepoExists: which create call is made for an owner type.
CreateCall(type) ==
  IF type = "Organization" THEN "createInOrg" ELSE "createForAuthenticatedUser"

\* ensureRepo reading the head after the site files, before the README write.
AfterPutHeadBeforeReadme(idx, okay) ==
  CASE ~okay -> "throw"
    [] idx < Len(WriteOrder) - 1 -> "getSha"
    [] OTHER -> "getRef"

\* ensureRepo with every putFile wrapped in try {} catch {}.
AfterPutSwallow(idx, okay) ==
  IF idx < Len(WriteOrder) THEN "getSha" ELSE "getRef"

\* ensureRepo: a putFile that throws ends ensureRepo; otherwise the next file,
\* and after the last one the head read.
AfterPut(idx, okay) ==
  CASE ~okay -> "throw"
    [] idx < Len(WriteOrder) -> "getSha"
    [] OTHER -> "getRef"

\* The legacy postWithRetry: fetch is not inside a try, so a rejected fetch
\* leaves the loop as an exception.
AttemptControlNoCatch(outcome) ==
  CASE outcome = "ok" -> "return"
    [] outcome = "http" -> "sleep"
    [] OTHER -> "throw"

\* postWithBackoff: res.ok returns; a non-ok response and a rejected fetch
\* (caught) both fall through to the delay.
AttemptControl(outcome) ==
  CASE outcome = "ok" -> "return"
    [] outcome = "http" -> "sleep"
    [] OTHER -> "sleep"

\* ---------------------------------------------------------------------- actions
Set(p, r) == inv' = [inv EXCEPT ![p] = r]

\* The handler has answered: its locals are gone.
Ended(r) ==
  [r EXCEPT !.pc = "done", !.idx = 1, !.sha = NoSha, !.ownerType = "", !.responses = @ + 1]

\* The handler's early returns: 403 or 400.
Rejected(r, status, errors) ==
  [Ended(r) EXCEPT !.response = RejectResponse(status),
                   !.errorText = RejectText(status, errors)]

\* A handler without its try/catch: the rejection ends the handler and nothing
\* is sent to the caller.
ThrownUnhandled(r, e) ==
  [r EXCEPT !.pc = "done", !.idx = 1, !.sha = NoSha, !.ownerType = "", !.caught = e]

\* The catch of the handler: the invocation ends with the 500 response.
Thrown(r, e) ==
  [Ended(r) EXCEPT !.response = ErrorResponse, !.caught = e, !.errorText = ErrorBody(e)]

\* Which earlier invocation this one repeats: it finished with 200, carried the
\* same brief, and nothing else is running.
SequelOf(q, b) ==
  IF \E p \in Procs \ {q} :
       /\ inv[p].pc = "done" /\ inv[p].response.status = 200 /\ inv[p].brief = b
       /\ \A r \in Procs \ {p, q} : inv[r].pc = "idle"
    THEN CHOOSE p \in Procs \ {q} :
       /\ inv[p].pc = "done" /\ inv[p].response.status = 200 /\ inv[p].brief = b
       /\ \A r \in Procs \ {p, q} : inv[r].pc = "idle"
    ELSE 0

\* POST /task arrives: the secret check, validateBody, and for a request let
\* through the entry into ensureRepo.
Start(p) ==
  /\ inv[p].pc = "idle" /\ inv[p].round # 0
  /\ LET errors == ValidateBody(inv[p].body)
         status == Admission(inv[p].secret, errors)
     IN  IF status # 0
           THEN Set(p, Rejected(inv[p], status, errors))
           ELSE \E b \in Briefs(p), u \in Urls(p) :
                  Set(p, [inv[p] EXCEPT
                            !.pc = "repoGet", !.brief = b, !.url = u,
                            !.sequelOf = SequelOf(p, b),
                            !.treeAtStart = IF SequelOf(p, b) # 0 THEN tree ELSE EmptyTree])
  /\ UNCHANGED <<remote, ownerKind, defaultBranch, year, fx>>

\* ensureRepoExists: octokit.rest.repos.get
RepoGet(p) ==
  /\ inv[p].pc = "repoGet"
  /\ \E status \in {IF repoExists THEN 200 ELSE 404, 500} :
       LET next == AfterLookup(status)
           r == [inv[p] EXCEPT !.lookupStatus = status]
       IN  Set(p, IF next = "throw" THEN Thrown(r, "HttpError: repos.get failed")
                                   ELSE [r EXCEPT !.pc = next])
  /\ UNCHANGED <<remote, ownerKind, defaultBranch, year, fx>>

\* getOwnerType: octokit.rest.users.getByUsername
OwnerType(p) ==
  /\ inv[p].pc = "ownerType"
  /\ \E answer \in {ownerKind, "error"} :
       Set(p, [inv[p] EXCEPT !.pc = "create", !.ownerType = OwnerTypeResult(answer)])
  /\ UNCHANGED <<remote, ownerKind, defaultBranch, year, fx>>

\* ensureRepoExists: createInOrg / createForAuthenticatedUser, auto_init: true.
\* The remote refuses a name that exists, and may fail for its own reasons.
Create(p) ==
  /\ inv[p].pc = "create"
  /\ LET r == [inv[p] EXCEPT !.createCall = CreateCall(inv[p].ownerType),
                             !.createVisibility = CreateVisibility,
                             !.ownerType = ""] IN
     \/ /\ ~repoExists
        /\ repoExists' = TRUE
        /\ tree' = [tree EXCEPT ![ReadmePath] = AutoInitReadme]
        /\ head' = InitCommit
        /\ Set(p, [r EXCEPT !.pc = "getBranch"])
     \/ /\ Set(p, Thrown(r, "HttpError: repository creation failed"))
        /\ UNCHANGED remote
  /\ UNCHANGED <<ownerKind, defaultBranch, year, fx>>

\* getDefaultBranch: octokit.rest.repos.get once more
GetBranch(p) ==
  /\ inv[p].pc = "getBranch"
  /\ \/ Set(p, [inv[p] EXCEPT !.pc = "generate", !.branch = DefaultBranchOf(defaultBranch)])
     \/ Set(p, Thrown(inv[p], "HttpError: repos.get failed"))
  /\ UNCHANGED <<remote, ownerKind, defaultBranch, year, fx>>

\* generateSite, buildLicense (reads the year), buildReadme, readLocal: the
\* local reads can fail (template or boilerplate file missing). Then the commit
\* message is chosen.
Generate(p) ==
  /\ inv[p].pc = "generate"
  /\ \/ Set(p, [inv[p] EXCEPT !.pc = "getSha", !.licYear = year, !.idx = 1,
                              !.message = CommitMessage(inv[p].round)])
     \/ Set(p, Thrown(inv[p], "ENOENT: no such file or directory"))
  /\ UNCHANGED <<remote, ownerKind, defaultBranch, year, fx>>

\* putFile, first half: getFileShaIfExists (null on 404, rethrow otherwise)
GetSha(p) ==
  /\ inv[p].pc = "getSha"
  /\ LET me == [inv[p] EXCEPT !.targets = @ \cup {inv[p].branch}] IN
     \/ Set(p, [me EXCEPT !.pc = "putWrite", !.sha = ShaOf(tree[WriteOrder[me.idx]])])
     \/ Set(p, Thrown([me EXCEPT !.putFailed = TRUE], "HttpError: getContent failed"))
  /\ UNCHANGED <<remote, ownerKind, defaultBranch, year, fx>>

\* putFile, second half: createOrUpdateFileContents with the sha read before
PutWrite(p) ==
  /\ inv[p].pc = "putWrite"
  /\ LET me == [inv[p] EXCEPT !.messages = @ \cup {inv[p].message},
                              !.targets = @ \cup {inv[p].branch}]
         path == WriteOrder[me.idx]
         content == Desired(path, me.brief, me.licYear)
         next(okay) == AfterPut(me.idx, okay)
         step(r, okay) ==
           IF next(okay) = "throw"
             THEN Thrown([r EXCEPT !.putFailed = TRUE],
                         "HttpError: createOrUpdateFileContents failed")
             ELSE [r EXCEPT !.pc = next(okay), !.idx = me.idx + 1, !.sha = NoSha,
                            !.putFailed = @ \/ ~okay]
     IN
     \/ /\ WriteAccepted(tree[path], me.sha)
        /\ tree' = TreeAfterWrite(tree, path, content)
        /\ head' = Commit(p, Len(me.written) + 1)
        /\ Set(p, step([me EXCEPT !.written = Append(@, path)], TRUE))
        /\ UNCHANGED repoExists
     \/ /\ ~WriteAccepted(tree[path], me.sha)
        /\ Set(p, step([me EXCEPT !.conflicts = @ + 1], FALSE))
        /\ UNCHANGED remote
     \/ /\ Set(p, step(me, FALSE))
        /\ UNCHANGED remote
  /\ UNCHANGED <<ownerKind, defaultBranch, year, fx>>

\* ensureRepo: octokit.rest.git.getRef heads/<branch>; then the payload is built
GetRef(p) ==
  /\ inv[p].pc = "getRef"
  /\ \/ Set(p, [inv[p] EXCEPT
                     !.pc = "post", !.commitSha = head, !.headReads = @ + 1,
                     !.headRef = HeadRef(inv[p].branch),
                     !.payload = Payload(Request(p, inv[p].round),
                                         RepoInfo(TaskRepo, head))])
     \/ Set(p, Thrown([inv[p] EXCEPT !.headRef = HeadRef(inv[p].branch)],
                       "HttpError: getRef failed"))
  /\ UNCHANGED <<remote, ownerKind, defaultBranch, year, fx>>

\* postWithBackoff: one fetch of the loop. The callback target answers 2xx,
\* answers a non-2xx status, or the fetch rejects (network failure).
Post(p) ==
  /\ inv[p].pc = "post"
  /\ \E outcome \in IF inv[p].url = "healthy" THEN {"ok"} ELSE {"ok", "http", "net"} :
       LET r == [inv[p] EXCEPT
                   !.attempts = @ + 1,
                   !.sent = @ \cup {inv[p].payload},
                   !.lastOutcome = outcome,
                   !.lastStatus = CASE outcome = "ok" -> 200
                                    [] outcome = "http" -> 500
                                    [] OTHER -> @,
                   !.lastText = CASE outcome = "ok" -> @
                                  [] outcome = "http" -> "body"
                                  [] OTHER -> "neterr"]
           control == AttemptControl(outcome)
       IN  Set(p, CASE control = "return" ->
                         [Ended(r) EXCEPT !.notified = "delivered",
                                          !.response = TaskResponse(TRUE)]
                    [] control = "sleep" -> [r EXCEPT !.pc = "sleep"]
                    [] OTHER -> Thrown(r, "FetchError: request failed"))
  /\ UNCHANGED <<remote, ownerKind, defaultBranch, year, fx>>

\* postWithBackoff: the setTimeout after a failed attempt, then i++ and either
\* the next attempt or the return of { ok: false }.
Sleep(p) ==
  /\ inv[p].pc = "sleep"
  /\ LET r == [inv[p] EXCEPT !.slept = Append(@, Delays[inv[p].i + 1]), !.i = @ + 1]
     IN  Set(p, IF r.i < Len(Delays)
                  THEN [r EXCEPT !.pc = "post"]
                  ELSE [Ended(r) EXCEPT !.notified = "failed",
                                        !.response = TaskResponse(FALSE)])
  /\ UNCHANGED <<remote, ownerKind, defaultBranch, year, fx>>

\* The clock: new Date().getFullYear() changes at the turn of the year. Only
\* buildLicense reads it, so a change counts while a submitted invocation has
\* yet to build its license.
NewYear ==
  /\ year < MaxYearTicks
  /\ \E p \in Procs : inv[p].round # 0 /\ inv[p].pc # "done" /\ inv[p].licYear = -1
  /\ year' = year + 1
  /\ UNCHANGED <<remote, ownerKind, defaultBranch, inv, fx>>

Next ==
  \/ \E p \in Procs :
       \/ Start(p) \/ RepoGet(p) \/ OwnerType(p) \/ Create(p) \/ GetBranch(p)
       \/ Generate(p) \/ GetSha(p) \/ PutWrite(p) \/ GetRef(p) \/ Post(p) \/ Sleep(p)
  \/ NewYear

Spec == Init /\ [][Next]_vars

SpecSolo == InitSolo /\ [][Next]_vars

\* The steps of one invocation
Handler(p) ==
  \/ Start(p) \/ RepoGet(p) \/ OwnerType(p) \/ Create(p) \/ GetBranch(p)
  \/ Generate(p) \/ GetSha(p) \/ PutWrite(p) \/ GetRef(p) \/ Post(p) \/ Sleep(p)

\* One submission, every awaited call of which returns or fails in the end:
\* the event loop then runs the handler's continuation.
SpecSoloFair == InitSolo /\ [][Next]_vars /\ \A p \in Procs : WF_vars(Handler(p))

\* ------------------------------------------------------------ chooseTemplate
KwCaptcha == <<"c", "a", "p", "t", "c", "h", "a">>
KwUrl == <<"?", "u", "r", "l", "=">>
KwMarkdown == <<"m", "a", "r", "k", "d", "o", "w", "n">>
KwMarked == <<"m", "a", "r", "k", "e", "d">>
KwHighlightDot == <<"h", "i", "g", "h", "l", "i", "g", "h", "t", ".", "j", "s">>
KwHighlightJs == <<"h", "i", "g", "h", "l", "i", "g", "h", "t", "j", "s">>
KwCsv == <<"c", "s", "v">>
KwSales == <<"s", "a", "l", "e", "s">>
KwSumOfSales == <<"s", "u", "m", " ", "o", "f", " ", "s", "a", "l", "e", "s">>
KwGithub == <<"g", "i", "t", "h", "u", "b">>
KwUser == <<"u", "s", "e", "r">>
KwCreated == <<"c", "r", "e", "a", "t", "e", "d">>
KwCreation == <<"c", "r", "e", "a", "t", "i", "o", "n">>
KwCreatedAt == <<"c", "r", "e", "a", "t", "e", "d", " ", "a", "t">>

\* A brief as the handler may pass it: undefined, null or a string.
UndefinedBrief == [kind |-> "undefined", chars |-> <<>>]
NullBrief == [kind |-> "null", chars |-> <<>>]
StringBrief(cs) == [kind |-> "string", chars |-> cs]

\* (brief || '').toLowerCase(), with '' the default of an undefined brief
BriefLower(brief) == IF brief.kind = "string" THEN ToLower(brief.chars) ELSE <<>>

\* chooseTemplate without toLowerCase.
ChooseTemplateCaseSensitive(brief) ==
  LET b == IF brief.kind = "string" THEN brief.chars ELSE <<>>
      has(kw) == Includes(b, kw)
  IN  CASE has(KwCaptcha) /\ has(KwUrl) -> "captcha-solver"
        [] has(KwMarkdown) \/ has(KwMarked) \/ has(KwHighlightDot) \/ has(KwHighlightJs)
             -> "markdown-to-html"
        [] (has(KwCsv) /\ has(KwSales)) \/ has(KwSumOfSales) -> "sum-of-sales"
        [] (has(KwGithub) /\ has(KwUser) /\ (has(KwCreated) \/ has(KwCreation)))
             \/ has(KwCreatedAt) -> "github-user-created"
        [] OTHER -> "fallback"

\* chooseTemplate: the if-chain, first test that holds returns
ChooseTemplate(brief) ==
  LET b == BriefLower(brief)
      has(kw) == Includes(b, kw)
  IN  IF has(KwCaptcha) /\ has(KwUrl) THEN "captcha-solver"
      ELSE IF has(KwMarkdown) \/ has(KwMarked) \/ has(KwHighlightDot) \/ has(KwHighlightJs)
        THEN "markdown-to-html"
      ELSE IF (has(KwCsv) /\ has(KwSales)) \/ has(KwSumOfSales) THEN "sum-of-sales"
      ELSE IF (has(KwGithub) /\ has(KwUser) /\ (has(KwCreated) \/ has(KwCreation)))
                \/ has(KwCreatedAt)
        THEN "github-user-created"
      ELSE "fallback"

\* Words the briefs of the model are made of.
BriefWords ==
  {<<"c", "a", "p", "t", "c", "h", "a">>, <<"?", "u", "r", "l", "=">>, <<"m", "a", "r", "k", "d", "o", "w", "n">>, <<"M", "a", "r", "k", "e", "d">>, <<"h", "i", "g", "h", "l", "i", "g", "h", "t", ".", "j", "s">>, <<"h", "i", "g", "h", "l", "i", "g", "h", "t", "j", "s">>,
   <<"C", "S", "V">>, <<"s", "a", "l", "e", "s">>, <<"s", "u", "m", " ", "o", "f", " ">>, <<"G", "i", "t", "H", "u", "b">>, <<"u", "s", "e", "r">>, <<"c", "r", "e", "a", "t", "e", "d">>, <<"c", "r", "e", "a", "t", "i", "o", "n">>,
   <<" ", "a", "t">>, <<" ", "p", "a", "g", "e", " ">>}

\* How many words a brief has at most.
MaxBriefWords == 3

BriefInputs ==
  {UndefinedBrief, NullBrief}
    \cup {StringBrief(Concat(ws)) : ws \in SeqsUpTo(BriefWords, MaxBriefWords)}

InitQuiet ==
  /\ repoExists = FALSE /\ tree = EmptyTree /\ head = InitCommit
  /\ ownerKind = "User" /\ defaultBranch = "main" /\ year = 0
  /\ inv = [p \in Procs |-> IdleInv]

quiet == <<repoExists, tree, head, ownerKind, defaultBranch, year, inv>>

InitChoose ==
  /\ InitQuiet
  /\ fx \in {[op |-> "chooseTemplate", arg |-> b, done |-> FALSE, res |-> ""] :
               b \in BriefInputs}

\* const tpl = chooseTemplate(brief)
ApplyChoose ==
  /\ fx.op = "chooseTemplate" /\ ~fx.done
  /\ fx' = [fx EXCEPT !.done = TRUE, !.res = ChooseTemplate(fx.arg)]
  /\ UNCHANGED quiet

SpecChoose == InitChoose /\ [][ApplyChoose]_vars

\* --------------------------------------------------- injectVariablesIntoHtml
TagScript == <<"<", "s", "c", "r", "i", "p", "t">>
TagHeadClose == <<"<", "/", "h", "e", "a", "d", ">">>
TagBody == <<"<", "b", "o", "d", "y">>
TagEnd == <<">">>
NewLine == <<"\n">>

\* String.prototype.indexOf(sub, from): first occurrence at or after position
\* `from` (from 1); 0 when there is none
IndexOfFrom(s, sub, from) ==
  IF \E k \in from..(Len(s) + 1) : StartsAt(s, sub, k)
    THEN CHOOSE k \in from..(Len(s) + 1) :
           StartsAt(s, sub, k) /\ \A j \in from..(k - 1) : ~StartsAt(s, sub, j)
    ELSE 0

\* html.slice(0, k) and html.slice(k), k counted from 0
SliceTo(s, k) == SubSeq(s, 1, k)
SliceFrom(s, k) == SubSeq(s, k + 1, Len(s))

\* '<script>\n' + 'window.__INJECT__ = ' + JSON.stringify(vars) + ';\n' + '</script>';
\* the JSON text of the bag is one element of the string.
InlineScript(bag) ==
  <<"<", "s", "c", "r", "i", "p", "t", ">">> \o NewLine \o <<"window.__INJECT__ = ", bag, ";">> \o NewLine \o <<"<", "/", "s", "c", "r", "i", "p", "t", ">">>

\* injectVariablesIntoHtml with the closing head marker tried first.
InjectHeadFirst(html, bag) ==
  LET inlineScript == InlineScript(bag)
      idx == IndexOf(html, TagScript)
      headIdx == IndexOf(html, TagHeadClose)
  IN  IF headIdx # 0
        THEN SliceTo(html, headIdx - 1) \o inlineScript \o NewLine \o SliceFrom(html, headIdx - 1)
      ELSE IF idx # 0
        THEN SliceTo(html, idx - 1) \o inlineScript \o NewLine \o SliceFrom(html, idx - 1)
      ELSE inlineScript \o html

\* injectVariablesIntoHtml: before the first '<script', else before '</head>',
\* else after the '>' that follows '<body', else in front of the document.
InjectVariablesIntoHtml(html, bag) ==
  LET inlineScript == InlineScript(bag)
      idx == IndexOf(html, TagScript)
      headIdx == IndexOf(html, TagHeadClose)
      bodyIdx == IndexOf(html, TagBody)
      closeBody == IF bodyIdx # 0 THEN IndexOfFrom(html, TagEnd, bodyIdx) ELSE 0
  IN  IF idx # 0
        THEN SliceTo(html, idx - 1) \o inlineScript \o NewLine \o SliceFrom(html, idx - 1)
      ELSE IF headIdx # 0
        THEN SliceTo(html, headIdx - 1) \o inlineScript \o NewLine \o SliceFrom(html, headIdx - 1)
      ELSE IF bodyIdx # 0 /\ closeBody # 0
        THEN SliceTo(html, closeBody) \o NewLine \o inlineScript \o NewLine
               \o SliceFrom(html, closeBody)
      ELSE inlineScript \o html

\* Pieces the entry documents of the model are made of.
DocWords ==
  {<<"<", "s", "c", "r", "i", "p", "t", ">">>, <<"<", "/", "s", "c", "r", "i", "p", "t", ">">>, <<"<", "S", "C", "R", "I", "P", "T", ">">>, <<"<", "h", "e", "a", "d", ">">>, <<"<", "/", "h", "e", "a", "d", ">">>, <<"<", "b", "o", "d", "y">>, <<">">>, <<"h", "i">>}

\* How many pieces an entry document has at most.
MaxDocWords == 3

\* Variable bags, as their JSON text.
Bags == {"{ATTACHMENTS}", "{ATTACHMENTS,ATTACHMENT_TEXT}"}

InitInject ==
  /\ InitQuiet
  /\ fx \in {[op |-> "injectVariablesIntoHtml", arg |-> Concat(ws), bag |-> b,
              done |-> FALSE, res |-> <<>>] :
               ws \in SeqsUpTo(DocWords, MaxDocWords), b \in Bags}

\* const injectedHtml = injectVariablesIntoHtml(tplHtmlRaw, vars)
ApplyInject ==
  /\ fx.op = "injectVariablesIntoHtml" /\ ~fx.done
  /\ fx' = [fx EXCEPT !.done = TRUE, !.res = InjectVariablesIntoHtml(fx.arg, fx.bag)]
  /\ UNCHANGED quiet

SpecInject == InitInject /\ [][ApplyInject]_vars

\* -------------------------------------------------- parseDataUri, generateSite
SchemeData == <<"d", "a", "t", "a", ":">>
MarkBase64 == <<";", "b", "a", "s", "e", "6", "4">>
Comma == <<",">>
MimeMarkdown == <<"t", "e", "x", "t", "/", "m", "a", "r", "k", "d", "o", "w", "n">>
MimeCsv == <<"t", "e", "x", "t", "/", "c", "s", "v">>
MimeImagePrefix == <<"i", "m", "a", "g", "e", "/">>
KwSalesSummary == <<"s", "a", "l", "e", "s", " ", "s", "u", "m", "m", "a", "r", "y">>

HexDigits == {"0", "1", "2", "3", "4", "5", "6", "7", "8", "9",
              "a", "b", "c", "d", "e", "f", "A", "B", "C", "D", "E", "F"}
Base64Chars ==
  {UpperAlphabet[k] : k \in 1..26} \cup {LowerAlphabet[k] : k \in 1..26}
    \cup {"0", "1", "2", "3", "4", "5", "6", "7", "8", "9", "+", "/", "="}

\* decodeURIComponent: every '%' must be followed by two hex digits (the escaped
\* byte becomes one element), anything else makes it throw URIError.
RECURSIVE PercentDecode(_)
PercentDecode(d) ==
  IF d = <<>> THEN [ok |-> TRUE, text |-> <<>>]
  ELSE IF Head(d) = "%"
    THEN IF Len(d) >= 3 /\ d[2] \in HexDigits /\ d[3] \in HexDigits
           THEN LET rest == PercentDecode(SubSeq(d, 4, Len(d)))
                IN  [ok |-> rest.ok, text |-> <<"0x" \o d[2] \o d[3]>> \o rest.text]
           ELSE [ok |-> FALSE, text |-> <<>>]
    ELSE LET rest == PercentDecode(Tail(d))
         IN  [ok |-> rest.ok, text |-> <<Head(d)>> \o rest.text]

\* Buffer.from(data, 'base64'): never throws; characters outside the base64
\* alphabet carry no data. The bytes are named by the characters that code them.
Base64Decode(d) ==
  [ok |-> TRUE, text |-> <<"base64:">> \o SelectSeq(d, LAMBDA c : c \in Base64Chars /\ c # "=")]

\* meta.replace(/;base64/i, ''): the first occurrence, in any letter case
RemoveFirst(s, sub) ==
  LET k == IndexOf(ToLower(s), sub)
  IN  IF k = 0 THEN s ELSE SubSeq(s, 1, k - 1) \o SubSeq(s, k + Len(sub), Len(s))

\* A url as an attachment may carry it: a string, or a value of another type.
StringUrl(cs) == [type |-> "string", chars |-> cs]
OtherUrl(type) == [type |-> type, chars |-> <<>>]

NullParse == [kind |-> "null", mime |-> <<>>, text |-> <<>>]
ThrowParse == [kind |-> "throw", mime |-> <<>>, text |-> <<>>]

\* parseDataUri without the try around the decoding.
ParseDataUriNoCatch(url) ==
  IF url.type # "string" \/ url.chars = <<>> \/ ~StartsAt(url.chars, SchemeData, 1)
    THEN NullParse
  ELSE LET firstComma == IndexOf(url.chars, Comma) IN
    IF firstComma = 0 THEN NullParse
    ELSE LET meta == SubSeq(url.chars, 6, firstComma - 1)
             data == SubSeq(url.chars, firstComma + 1, Len(url.chars))
             isBase64 == Includes(ToLower(meta), MarkBase64)
             mime == RemoveFirst(meta, MarkBase64)
             decoded == IF isBase64 THEN Base64Decode(data) ELSE PercentDecode(data)
         IN  IF decoded.ok
               THEN [kind |-> "parsed", mime |-> mime, text |-> decoded.text]
               ELSE ThrowParse

\* parseDataUri: null unless the argument is a non-empty string that starts
\* with 'data:' and has a comma; a decoding that throws gives null as well.
ParseDataUri(url) ==
  IF url.type # "string" \/ url.chars = <<>> \/ ~StartsAt(url.chars, SchemeData, 1)
    THEN NullParse
  ELSE LET firstComma == IndexOf(url.chars, Comma) IN
    IF firstComma = 0 THEN NullParse
    ELSE LET meta == SubSeq(url.chars, 6, firstComma - 1)
             data == SubSeq(url.chars, firstComma + 1, Len(url.chars))
             isBase64 == Includes(ToLower(meta), MarkBase64)
             mime == RemoveFirst(meta, MarkBase64)
             decoded == IF isBase64 THEN Base64Decode(data) ELSE PercentDecode(data)
         IN  IF decoded.ok
               THEN [kind |-> "parsed", mime |-> mime, text |-> decoded.text]
               ELSE NullParse

IsSpace(c) == c \in {" ", "\n", "\r", "\t"}

\* String.prototype.trim
RECURSIVE Trim(_)
Trim(s) ==
  IF s = <<>> THEN s
  ELSE IF IsSpace(Head(s)) THEN Trim(Tail(s))
  ELSE IF IsSpace(s[Len(s)]) THEN Trim(SubSeq(s, 1, Len(s) - 1))
  ELSE s

\* derivePageTitleFromBrief: /sales summary[^\n\r]*/i, the match trimmed; the
\* empty string stands for null.
DerivePageTitleFromBrief(brief) ==
  LET k == IndexOf(ToLower(brief), KwSalesSummary)
      ends == {j \in k..Len(brief) : brief[j] \in {"\n", "\r"}}
      last == IF ends = {} THEN Len(brief)
              ELSE (CHOOSE j \in ends : \A e \in ends : j <= e) - 1
  IN  IF k = 0 THEN <<>> ELSE Trim(SubSeq(brief, k, last))

\* The variable bag while it is filled: keys and their values.
NoVars == [k \in {} |-> <<>>]

\* generateSite with the media types of the text attachments tested as prefixes.
SiteVarsPrefixMime(brief, attachments) ==
  LET tpl == ChooseTemplate(StringBrief(brief))
      first == IF attachments # <<>> THEN attachments[1].url ELSE OtherUrl("none")
      parsed == IF first.type = "string" THEN ParseDataUri(first) ELSE NullParse
      ok == parsed.kind = "parsed"
      mime == ToLower(parsed.mime)
  IN  [thrown |-> parsed.kind = "throw", tpl |-> tpl,
       vars |-> [ATTACHMENTS |-> attachments]
           @@ (IF tpl = "captcha-solver" /\ ok /\ StartsAt(mime, MimeImagePrefix, 1)
                 THEN [ATTACHMENT_URL |-> first.chars] ELSE NoVars)
           @@ (IF \/ tpl = "markdown-to-html" /\ ok /\ StartsAt(mime, MimeMarkdown, 1)
                  \/ tpl = "sum-of-sales" /\ ok /\ StartsAt(mime, MimeCsv, 1)
                 THEN [ATTACHMENT_TEXT |-> parsed.text] ELSE NoVars)
           @@ (IF tpl = "sum-of-sales" /\ ok /\ StartsAt(mime, MimeCsv, 1)
                    /\ DerivePageTitleFromBrief(brief) # <<>>
                 THEN [PAGE_TITLE |-> DerivePageTitleFromBrief(brief)] ELSE NoVars)]

\* generateSite, up to the injection: the template and the variable bag. The
\* media type tests are /^image\//i, /^text\/markdown$/i and /^text\/csv$/i.
SiteVars(brief, attachments) ==
  LET tpl == ChooseTemplate(StringBrief(brief))
      first == IF attachments # <<>> THEN attachments[1].url ELSE OtherUrl("none")
      parsed == IF first.type = "string" THEN ParseDataUri(first) ELSE NullParse
      ok == parsed.kind = "parsed"
      mime == ToLower(parsed.mime)
  IN  [thrown |-> parsed.kind = "throw", tpl |-> tpl,
       vars |-> [ATTACHMENTS |-> attachments]
           @@ (IF tpl = "captcha-solver" /\ ok /\ mime # <<>>
                    /\ StartsAt(mime, MimeImagePrefix, 1)
                 THEN [ATTACHMENT_URL |-> first.chars] ELSE NoVars)
           @@ (IF \/ tpl = "markdown-to-html" /\ ok /\ mime = MimeMarkdown
                  \/ tpl = "sum-of-sales" /\ ok /\ mime = MimeCsv
                 THEN [ATTACHMENT_TEXT |-> parsed.text] ELSE NoVars)
           @@ (IF tpl = "sum-of-sales" /\ ok /\ mime = MimeCsv
                    /\ DerivePageTitleFromBrief(brief) # <<>>
                 THEN [PAGE_TITLE |-> DerivePageTitleFromBrief(brief)] ELSE NoVars)]

\* The first attachment's url, by its parts.
UrlSchemes == {<<"d", "a", "t", "a", ":">>, <<"h", "t", "t", "p", ":">>}
UrlMimes == {<<"t", "e", "x", "t", "/", "c", "s", "v">>, <<"T", "E", "X", "T", "/", "C", "S", "V">>, <<"t", "e", "x", "t", "/", "c", "s", "v", ";", "c", "h", "a", "r", "s", "e", "t", "=", "u", "t", "f", "-", "8">>, <<"t", "e", "x", "t", "/", "m", "a", "r", "k", "d", "o", "w", "n">>,
             <<"t", "e", "x", "t", "/", "m", "a", "r", "k", "d", "o", "w", "n", "x">>, <<"i", "m", "a", "g", "e", "/", "p", "n", "g">>, <<"a", "p", "p", "l", "i", "c", "a", "t", "i", "o", "n", "/", "j", "s", "o", "n">>}
UrlDatas == {<<"Q", "Q", "=", "=">>, <<"%", "4", "1", "b">>, <<"%", "z", "z">>, <<"a", "%", "4">>, <<"!", "!">>}
UrlParts ==
  [scheme : UrlSchemes, mime : UrlMimes, base64 : BOOLEAN, comma : BOOLEAN, data : UrlDatas]
UrlOf(parts) ==
  StringUrl(parts.scheme \o parts.mime \o (IF parts.base64 THEN MarkBase64 ELSE <<>>)
              \o (IF parts.comma THEN Comma ELSE <<>>) \o parts.data)

NoParts == [scheme |-> <<>>, mime |-> <<>>, base64 |-> FALSE, comma |-> FALSE, data |-> <<>>]

\* Attachment lists of the model: none, one whose url is not a string, one
\* whose url is made of parts.
AttachmentInputs ==
  {[parts |-> NoParts, list |-> <<>>]}
    \cup {[parts |-> NoParts, list |-> <<[name |-> "a", url |-> OtherUrl(t)]>>] :
            t \in {"undefined", "number"}}
    \cup {[parts |-> NoParts, list |-> <<[name |-> "a", url |-> StringUrl(<<>>)]>>]}
    \cup {[parts |-> ps, list |-> <<[name |-> "a", url |-> UrlOf(ps)]>>] : ps \in UrlParts}

\* Briefs of the model: one or two for each template, with and without a
\* "sales summary" phrase.
SiteBriefs ==
  {<<"S", "o", "l", "v", "e", " ", "t", "h", "e", " ", "c", "a", "p", "t", "c", "h", "a", " ", "a", "t", " ", "?", "u", "r", "l", "=", "x">>,
   <<"R", "e", "n", "d", "e", "r", " ", "M", "A", "R", "K", "D", "O", "W", "N", ",", " ", "t", "i", "t", "l", "e", " ", "S", "a", "l", "e", "s", " ", "S", "u", "m", "m", "a", "r", "y">>,
   <<"s", "u", "m", " ", "o", "f", " ", "s", "a", "l", "e", "s", " ", "f", "r", "o", "m", " ", "t", "h", "e", " ", "C", "S", "V">>,
   <<"C", "S", "V", " ", "o", "f", " ", "s", "a", "l", "e", "s">> \o NewLine \o <<" ", " ", "S", "a", "l", "e", "s", " ", "S", "u", "m", "m", "a", "r", "y", " ", "2", "0", "2", "4", " ", " ">> \o NewLine \o <<"m", "o", "r", "e">>,
   <<"G", "i", "t", "H", "u", "b", " ", "u", "s", "e", "r", " ", "c", "r", "e", "a", "t", "e", "d", " ", "a", "t">>,
   <<"h", "e", "l", "l", "o", ",", " ", "s", "a", "l", "e", "s", " ", "s", "u", "m", "m", "a", "r", "y">>}

InitGenerate ==
  /\ InitQuiet
  /\ fx \in {[op |-> "generateSite", brief |-> b, parts |-> a.parts, attachments |-> a.list,
              done |-> FALSE, res |-> [thrown |-> FALSE, tpl |-> "", vars |-> NoVars]] :
               b \in SiteBriefs, a \in AttachmentInputs}

\* generateSite({ brief, attachments })
ApplyGenerate ==
  /\ fx.op = "generateSite" /\ ~fx.done
  /\ fx' = [fx EXCEPT !.done = TRUE, !.res = SiteVars(fx.brief, fx.attachments)]
  /\ UNCHANGED quiet

SpecGenerate == InitGenerate /\ [][ApplyGenerate]_vars

\* --------------------------------------------------- deriveRepoName, applied
LongWord == [k \in 1..28 |-> "x"]
TaskWords == {<<"T", "a", "s", "k">>, <<"t", "a", "s", "k">>, <<" ">>, <<"!", "?">>, <<"-">>, <<"_">>, <<"A", "1">>, <<"0">>, LongWord}
MaxTaskWords == 3
\* validateBody has refused the empty string before a name is derived.
TaskInputs ==
  {StringTask(Concat(ws)) : ws \in SeqsUpTo(TaskWords, MaxTaskWords) \ {<<>>}}
    \cup {NumberTask(<<"0">>), NumberTask(<<"1", "0">>)}
\* The task of a second submission, compared with the first one's.
OtherTasks == {StringTask(<<"t", "a", "s", "k">>), StringTask(<<"T", "a", "s", "k", " ", "A", "1">>), StringTask(LongWord \o LongWord)}
\* The rounds in which the name is derived for one task.
NameRounds == {1, 2}

InitName ==
  /\ InitQuiet
  /\ fx \in {[op |-> "deriveRepoName", task |-> t, other |-> o, calls |-> 0,
              names |-> <<>>, otherName |-> <<>>] : t \in TaskInputs, o \in OtherTasks}

\* ensureRepo: const repo = deriveRepoName(task), once per invocation; the first
\* call is followed by the call of the other submission.
ApplyName ==
  /\ fx.op = "deriveRepoName" /\ fx.calls < 2
  /\ \E round \in NameRounds :
       fx' = [fx EXCEPT !.calls = @ + 1,
                        !.names = Append(@, DeriveRepoName(fx.task)),
                        !.otherName = DeriveRepoName(fx.other)]
  /\ UNCHANGED quiet

SpecName == InitName /\ [][ApplyName]_vars

\* ------------------------------------------------------------------ properties

\* C1. A write rejected for a stale sha is re-read and retried once: the step in
\* which an invocation meets its first rejection does not end the invocation.
C1_FirstRejectionRetried ==
  [][\A p \in Procs :
       (inv[p].conflicts = 0 /\ inv'[p].conflicts = 1) => inv'[p].pc # "done"]_vars

\* C2. The notifier makes at most 6 attempts; it reports not-delivered only after
\* exactly 6 failed attempts; an attempt answered 2xx is the last one and makes
\* the result delivered; an attempt is pending only while fewer than 6 were made.
C2_AttemptBound ==
  \A p \in Procs :
    /\ inv[p].attempts <= 6
    /\ inv[p].pc = "post" => inv[p].attempts < 6
    /\ inv[p].notified = "failed" => inv[p].attempts = 6 /\ inv[p].lastOutcome # "ok"
    /\ inv[p].lastOutcome = "ok" => inv[p].pc = "done" /\ inv[p].notified = "delivered"
    /\ inv[p].notified = "delivered" => inv[p].lastOutcome = "ok" /\ inv[p].attempts \in 1..6

C2_Witness ==
  \E p \in Procs : inv[p].notified = "failed" /\ inv[p].attempts = 6

\* C3. A delay is taken only between two attempts: the delays taken are a prefix
\* of 1,2,4,8,16,32, none precedes the first attempt, and once the notifier has
\* returned there is one delay fewer than attempts.
C3_DelayOnlyBetweenAttempts ==
  \A p \in Procs :
    /\ inv[p].slept = SubSeq(<<1, 2, 4, 8, 16, 32>>, 1, Len(inv[p].slept))
    /\ Len(inv[p].slept) <= inv[p].attempts
    /\ inv[p].notified # "none" => Len(inv[p].slept) = inv[p].attempts - 1

\* C4. Once the head was read, the request is answered 200 with ok and the
\* payload whatever the notifier returned; the note is there exactly when every
\* callback attempt failed.
C4_DeliveryFailureAdvisory ==
  \A p \in Procs :
    (inv[p].headReads = 1 /\ inv[p].pc = "done") =>
      /\ inv[p].notified # "none"
      /\ inv[p].response =
           [status |-> 200, ok |-> TRUE, payload |-> TRUE,
            note |-> (inv[p].notified = "failed")]

C4_Witness ==
  \E p \in Procs :
    /\ inv[p].pc = "done" /\ inv[p].notified = "failed"
    /\ inv[p].response.status = 200 /\ inv[p].response.note

\* C5. A callback attempt that fails at network level is one failed attempt: the
\* step records the error text, answers nothing and goes on to the delay before
\* the next attempt; no invocation that made a callback attempt is answered 500.
C5_NetworkFailureIsAnAttempt ==
  [][\A p \in Procs :
       /\ (inv'[p].attempts = inv[p].attempts + 1 /\ inv'[p].lastOutcome = "net") =>
            /\ inv'[p].lastText = "neterr"
            /\ inv'[p].response = NoResponse
            /\ inv'[p].pc = "sleep"
       /\ inv'[p].attempts > 0 => inv'[p].response.status # 500]_vars

C5_Witness ==
  \E p \in Procs :
    inv[p].pc = "post" /\ inv[p].lastOutcome = "net" /\ inv[p].attempts >= 1

\* C6. The commit id ensureRepo returns is the commit of this invocation's own
\* last write, in every interleaving.
C6_HeadIsOwnLastWrite ==
  \A p \in Procs :
    inv[p].headReads = 1 => inv[p].commitSha = Commit(p, Len(inv[p].written))

\* C7 as stated. A run that repeats a finished run's request, with no other
\* writer, never changes the stored content of any path.
C7_SecondRunChangesNothing ==
  \A q \in Procs : inv[q].sequelOf # 0 => tree = inv[q].treeAtStart

\* C7 as amended. The same, when buildLicense read the same calendar year in both
\* runs.
C7_SecondRunChangesNothingSameYear ==
  \A q \in Procs :
    (inv[q].sequelOf # 0 /\ inv[q].licYear \in {-1, inv[inv[q].sequelOf].licYear})
      => tree = inv[q].treeAtStart

C7_Witness ==
  \E q \in Procs :
    /\ inv[q].sequelOf # 0 /\ inv[q].pc = "done" /\ inv[q].response.status = 200
    /\ inv[q].licYear = inv[inv[q].sequelOf].licYear
    /\ Len(inv[q].written) = 5
    /\ tree = inv[q].treeAtStart

\* C8. Once a putFile has thrown, the invocation is over with the 500 response,
\* has read no head and made no callback attempt, issues no further write, and
\* the step in which it threw left every stored file as it was.
C8_AbortOnWriteFailure ==
  [][\A p \in Procs :
       inv'[p].putFailed =>
         /\ inv'[p].pc = "done" /\ inv'[p].response = ErrorResponse
         /\ inv'[p].headReads = 0 /\ inv'[p].attempts = 0
         /\ inv[p].putFailed => inv'[p].written = inv[p].written
         /\ ~inv[p].putFailed =>
              /\ tree' = tree
              /\ \A k \in 1..Len(inv[p].written) : tree'[inv[p].written[k]] # Absent]_vars

C8_Witness ==
  \E p \in Procs :
    /\ inv[p].putFailed /\ Len(inv[p].written) >= 1
    /\ \A k \in 1..Len(inv[p].written) : tree[inv[p].written[k]] # Absent

\* C9. A repository lookup that fails with anything but not-found ends the
\* invocation with the 500 response, with no create and no write; a create is
\* issued only after the lookup answered not-found.
C9_LookupErrorFatal ==
  \A p \in Procs :
    /\ inv[p].lookupStatus \notin {0, 200, 404} =>
         /\ inv[p].pc = "done" /\ inv[p].response = ErrorResponse
         /\ inv[p].createCall = "" /\ inv[p].written = <<>>
    /\ inv[p].createCall # "" => inv[p].lookupStatus = 404

C9_Witness ==
  \E p \in Procs : inv[p].lookupStatus = 500 /\ inv[p].pc = "done"

\* C10. The paths an invocation has written are a prefix of: workflow
\* descriptor, license, site/index.html, site/app.js, README.
C10_WriteOrder ==
  \A p \in Procs :
    inv[p].written =
      SubSeq(<<".github/workflows/deploy-pages.yml", "LICENSE", "site/index.html",
               "site/app.js", "README.md">>, 1, Len(inv[p].written))

C10_Witness ==
  \E p \in Procs : Len(inv[p].written) = 5 /\ inv[p].written[5] = "README.md"

\* The rule table of the template catalogue: each rule is a template and the
\* keyword sets one of which must be wholly present.
Rule(tpl, anyOf) == [tpl |-> tpl, anyOf |-> anyOf]
CatalogueRules(markdownKeywords) ==
  << Rule("captcha-solver", {{KwCaptcha, KwUrl}}),
     Rule("markdown-to-html", {{kw} : kw \in markdownKeywords}),
     Rule("sum-of-sales", {{KwSales, KwCsv}, {KwSumOfSales}}),
     Rule("github-user-created",
          {{KwGithub, KwUser, KwCreated}, {KwGithub, KwUser, KwCreation}, {KwCreatedAt}}) >>

RuleMatches(rule, b) == \E ks \in rule.anyOf : \A kw \in ks : Includes(b, kw)

\* The template of the first rule that matches the lower-cased brief.
FirstMatch(rules, b) ==
  IF \E k \in 1..Len(rules) : RuleMatches(rules[k], b)
    THEN rules[CHOOSE k \in 1..Len(rules) :
                 RuleMatches(rules[k], b) /\ \A j \in 1..(k - 1) : ~RuleMatches(rules[j], b)].tpl
    ELSE "fallback"

\* C11 as stated. chooseTemplate returns the first matching rule of the
\* catalogue, with markdown-to-html selected by "markdown", "marked" or
\* "highlight.js" only, and fallback when no rule matches.
C11_SelectsByCatalogue ==
  (fx.op = "chooseTemplate" /\ fx.done) =>
    fx.res = FirstMatch(CatalogueRules({KwMarkdown, KwMarked, KwHighlightDot}),
                        BriefLower(fx.arg))

\* C11 as amended. The same, with "highlightjs" a fourth keyword of
\* markdown-to-html.
C11_SelectsByCatalogueWithHighlightJs ==
  (fx.op = "chooseTemplate" /\ fx.done) =>
    fx.res = FirstMatch(CatalogueRules({KwMarkdown, KwMarked, KwHighlightDot, KwHighlightJs}),
                        BriefLower(fx.arg))

\* A brief that matches the captcha rule and the markdown rule, in upper and
\* lower case, resolved to the earlier one.
C11_Witness ==
  /\ fx.op = "chooseTemplate" /\ fx.done
  /\ Includes(fx.arg.chars, KwCaptcha) /\ Includes(fx.arg.chars, KwUrl)
  /\ Includes(fx.arg.chars, <<"M", "a", "r", "k", "e", "d">>)
  /\ fx.res = "captcha-solver"

\* The blocks an injection may insert: the inline script with its line breaks.
InsertedBlocks(bag) ==
  {InlineScript(bag) \o NewLine, NewLine \o InlineScript(bag) \o NewLine, InlineScript(bag)}

\* out is doc with one block inserted after its first k characters
InsertedAt(doc, out, bag, k) ==
  \E blk \in InsertedBlocks(bag) : out = SliceTo(doc, k) \o blk \o SliceFrom(doc, k)

\* C12 as stated. The output is the input with one block inserted, and every
\* script element of the input (its tag in any letter case) starts after the block.
C12_BlockBeforeEveryScript ==
  (fx.op = "injectVariablesIntoHtml" /\ fx.done) =>
    \E k \in 0..Len(fx.arg) :
      /\ InsertedAt(fx.arg, fx.res, fx.bag, k)
      /\ \A j \in 1..Len(fx.arg) : StartsAt(ToLower(fx.arg), TagScript, j) => j > k

\* C12 as amended. The same for the script elements whose tag is written
\* '<script', in lower case.
C12_BlockBeforeEveryLowerCaseScript ==
  (fx.op = "injectVariablesIntoHtml" /\ fx.done) =>
    \E k \in 0..Len(fx.arg) :
      /\ InsertedAt(fx.arg, fx.res, fx.bag, k)
      /\ \A j \in 1..Len(fx.arg) : StartsAt(fx.arg, TagScript, j) => j > k

\* A document with a closing head marker before its first script element.
C12_Witness ==
  /\ fx.op = "injectVariablesIntoHtml" /\ fx.done
  /\ IndexOf(fx.arg, TagHeadClose) # 0
  /\ IndexOf(fx.arg, TagScript) > IndexOf(fx.arg, TagHeadClose)
  /\ InsertedAt(fx.arg, fx.res, fx.bag, IndexOf(fx.arg, TagScript) - 1)

\* The first attachment's url is not a well-formed inline payload: no list
\* entry, not a string, empty, wrong scheme, no comma, or percent-encoded data
\* with an escape that is not '%' and two hex digits.
BadEscape(d) ==
  \E k \in 1..Len(d) :
    d[k] = "%" /\ ~(k + 2 <= Len(d) /\ d[k + 1] \in HexDigits /\ d[k + 2] \in HexDigits)
Malformed(call) ==
  \/ call.attachments = <<>>
  \/ call.attachments[1].url.type # "string"
  \/ call.attachments[1].url.chars = <<>>
  \/ call.parts.scheme # SchemeData
  \/ ~call.parts.comma
  \/ ~call.parts.base64 /\ BadEscape(call.parts.data)

FirstMediaType(call) == IF Malformed(call) THEN <<>> ELSE ToLower(call.parts.mime)

\* C14. ATTACHMENT_TEXT is in the bag exactly when the template is
\* markdown-to-html and the first media type is text/markdown, or the template
\* is sum-of-sales and it is text/csv (whole type, any letter case);
\* ATTACHMENT_URL exactly when the template is captcha-solver and the type
\* starts with image/; PAGE_TITLE only with sum-of-sales, a text/csv attachment
\* and a "sales summary" phrase in the brief; nothing else is ever in the bag.
C14_VariableGating ==
  (fx.op = "generateSite" /\ fx.done) =>
    LET keys == DOMAIN fx.res.vars
        tpl == fx.res.tpl
        type == FirstMediaType(fx)
    IN  /\ "ATTACHMENTS" \in keys
        /\ keys \subseteq {"ATTACHMENTS", "ATTACHMENT_URL", "ATTACHMENT_TEXT", "PAGE_TITLE"}
        /\ "ATTACHMENT_TEXT" \in keys <=>
             \/ tpl = "markdown-to-html" /\ type = MimeMarkdown
             \/ tpl = "sum-of-sales" /\ type = MimeCsv
        /\ "ATTACHMENT_URL" \in keys <=>
             (tpl = "captcha-solver" /\ StartsAt(type, MimeImagePrefix, 1))
        /\ "PAGE_TITLE" \in keys =>
             /\ tpl = "sum-of-sales" /\ type = MimeCsv
             /\ Includes(ToLower(fx.brief), KwSalesSummary)
             /\ fx.res.vars.PAGE_TITLE # <<>>
        /\ tpl \in {"github-user-created", "fallback"} => keys = {"ATTACHMENTS"}

\* The sum-of-sales template with a text/csv attachment and a title phrase.
C14_Witness ==
  /\ fx.op = "generateSite" /\ fx.done
  /\ fx.res.tpl = "sum-of-sales"
  /\ DOMAIN fx.res.vars = {"ATTACHMENTS", "ATTACHMENT_TEXT", "PAGE_TITLE"}
  /\ fx.res.vars.PAGE_TITLE = <<"S", "a", "l", "e", "s", " ", "S", "u", "m", "m", "a", "r", "y", " ", "2", "0", "2", "4">>

\* C16. The repository name derived for a task is the same in every call and
\* round, is never empty and is never longer than 60 characters.
C16_NameOfTaskAlone ==
  fx.op = "deriveRepoName" =>
    \A k \in 1..Len(fx.names) :
      /\ fx.names[k] # <<>>
      /\ Len(fx.names[k]) <= 60
      /\ fx.names[k] = fx.names[1]

\* A task longer than the cap, named twice.
C16_Witness ==
  /\ fx.op = "deriveRepoName" /\ fx.calls = 2
  /\ Len(fx.task.chars) > 60
  /\ Len(fx.names[2]) = 59

\* C20. Two submissions whose task values differ are given different
\* repository names.
C20_DistinctTasksDistinctNames ==
  (fx.op = "deriveRepoName" /\ fx.calls >= 1 /\ fx.task # fx.other) =>
    fx.names[1] # fx.otherName

\* C15. Every write of an invocation with round 1 is committed with the
\* "initial app" message, and no write of an invocation with round 2 or more is.
C15_MessageByRound ==
  \A p \in Procs : \A msg \in inv[p].messages :
    /\ inv[p].round = 1 => msg = "feat: initial app"
    /\ inv[p].round >= 2 => msg # "feat: initial app"

\* C17. Every callback attempt of an invocation carries one and the same
\* payload: email, task, round and nonce are the request's, commit_sha is the
\* head the invocation read after its writes, repo_url names the owner and the
\* derived repository, pages_url is https://{owner}.github.io/{name}/.
C17_CallbackPayload ==
  \A p \in Procs :
    /\ inv[p].attempts > 0 => Cardinality(inv[p].sent) = 1
    /\ \A body \in inv[p].sent :
         /\ body.email = "dev@example.com"
         /\ body.task = Task
         /\ body.round = inv[p].round
         /\ body.nonce = (IF p = 1 THEN "nonce-1" ELSE "nonce-2")
         /\ inv[p].headReads = 1 /\ body.commit_sha = inv[p].commitSha
         /\ body.repo_url = "https://github.com/octo/llm-to-do"
         /\ body.pages_url = "https://octo.github.io/llm-to-do/"

\* Several attempts were made, after a head read that returned the commit of
\* the other invocation.
C17_Witness ==
  \E p \in Procs :
    /\ inv[p].attempts >= 2 /\ inv[p].sent # {}
    /\ inv[p].commitSha.by \notin {0, p}

\* C18. An invocation whose convergence threw is answered once, with status 500
\* and a body that is the fixed text: not the text of what was caught, no
\* payload, no note; and only such an invocation is answered 500.
C18_OpaqueFailure ==
  \A p \in Procs :
    /\ inv[p].caught # "" =>
         /\ inv[p].pc = "done"
         /\ inv[p].response = [status |-> 500, ok |-> FALSE, payload |-> FALSE, note |-> FALSE]
         /\ inv[p].errorText = "internal error"
         /\ inv[p].errorText # inv[p].caught
         /\ inv[p].sent = {}
    /\ inv[p].response.status = 500 => inv[p].caught # ""

\* A write failed after other writes had been accepted.
C18_Witness ==
  \E p \in Procs :
    /\ inv[p].caught = "HttpError: createOrUpdateFileContents failed"
    /\ Len(inv[p].written) >= 1
    /\ inv[p].response.status = 500

\* C19. In every interleaving a write changes a path only when the sha the
\* writer read for it is the sha of what is stored (none for a path that is not
\* there), and a writer whose sha is stale is rejected without the invocation
\* ending: it goes on to read the path again.
C19_NoLostUpdateAndRetry ==
  [][\A p \in Procs :
       /\ (inv[p].pc = "putWrite" /\ tree' # tree) =>
            inv[p].sha = ShaOf(tree[WriteOrder[inv[p].idx]])
       /\ (inv[p].pc = "putWrite" /\ inv'[p].conflicts > inv[p].conflicts) =>
            /\ tree' = tree
            /\ inv'[p].pc = "getSha" /\ inv'[p].idx = inv[p].idx]_vars

\* C21. An invocation issues at most one create, only after its own lookup
\* answered not-found and always with public visibility, through the
\* organization path exactly when the owner is an organization; a repository
\* that exists is never created again and never ceases to exist.
C21_RepositoryLifecycle ==
  /\ [](\A p \in Procs :
          inv[p].createCall # "" =>
            /\ inv[p].lookupStatus = 404
            /\ inv[p].createVisibility = "public"
            /\ inv[p].createCall = "createInOrg" <=> ownerKind = "Organization")
  /\ [][/\ repoExists => repoExists'
        /\ \A p \in Procs :
             /\ inv[p].createCall # "" => inv'[p].createCall = inv[p].createCall
             /\ (inv[p].lookupStatus = 200 /\ inv[p].pc # "idle") => inv'[p].createCall = ""]_vars

\* C22. A callback attempt is made only after every file of the submission was
\* written and the head was read, by an invocation that did not throw; from
\* then on the writes stay those five and the head read that one; the 200
\* response is sent only once the notifier has returned, delivered or with its
\* attempts used up.
C22_PipelineOrdering ==
  \A p \in Procs :
    /\ inv[p].attempts > 0 =>
         /\ Len(inv[p].written) = 5 /\ inv[p].headReads = 1
         /\ inv[p].caught = ""
    /\ inv[p].response.status = 200 =>
         /\ inv[p].pc = "done"
         /\ \/ inv[p].notified = "delivered" /\ inv[p].lastOutcome = "ok"
            \/ inv[p].notified = "failed" /\ inv[p].attempts = 6
    /\ inv[p].caught # "" => inv[p].attempts = 0 /\ inv[p].sent = {}

\* The response went out after a failed attempt and a delivered one.
C22_Witness ==
  \E p \in Procs :
    /\ inv[p].response.status = 200 /\ inv[p].attempts >= 2
    /\ inv[p].notified = "delivered" /\ Len(inv[p].written) = 5

\* C23. For a path whose stored content is already the desired content, the
\* createOrUpdateFileContents step creates no commit: the head and the list of
\* the invocation's writes stay as they are.
C23_OnlyChangesCommitted ==
  [][\A p \in Procs :
       (/\ inv[p].pc = "putWrite" /\ inv'[p] # inv[p]
        /\ tree[WriteOrder[inv[p].idx]] =
             Desired(WriteOrder[inv[p].idx], inv[p].brief, inv[p].licYear)) =>
         /\ head' = head
         /\ inv'[p].written = inv[p].written]_vars

\* C24. The branch an invocation resolved is the default branch the repository
\* reports; every sha read and every write names that branch and the head read
\* asks for heads/<that branch>, also when it is not main.
C24_DefaultBranch ==
  \A p \in Procs :
    /\ inv[p].branch \in {"", defaultBranch}
    /\ inv[p].targets \subseteq {defaultBranch}
    /\ inv[p].headRef \in {"", "heads/" \o defaultBranch}

\* A whole convergence on a repository whose default branch is trunk.
C24_Witness ==
  \E p \in Procs :
    /\ defaultBranch = "trunk" /\ inv[p].headReads = 1
    /\ inv[p].targets = {"trunk"} /\ inv[p].headRef = "heads/trunk"
    /\ Len(inv[p].written) = 5

\* C25. When every attempt failed, the not-delivered result describes the last
\* attempt: after a network failure it carries that failure's text and no
\* status of an earlier attempt; after a non-2xx answer it carries that
\* answer's status and body text.
C25_LastFailureDetail ==
  \A p \in Procs :
    inv[p].notified = "failed" =>
      LET result == NotDelivered(inv[p].lastStatus, inv[p].lastText) IN
      /\ inv[p].lastOutcome = "net" => result.status = 0 /\ result.error = "neterr"
      /\ inv[p].lastOutcome = "http" => result.status = 500 /\ result.error = "body"

\* C26. No step changes a path outside the five desired paths, and no step
\* removes a path that is there; this holds for the invocation of round 1 and
\* for the one of round 2.
C26_PriorContentKept ==
  [][\A path \in AllPaths :
       /\ path \notin {".github/workflows/deploy-pages.yml", "LICENSE", "site/index.html",
                       "site/app.js", "README.md"} => tree'[path] = tree[path]
       /\ tree[path] # Absent => tree'[path] # Absent]_vars

\* Both rounds wrote all their files into a repository that had another file,
\* and that file is as it was.
C26_Witness ==
  /\ \A p \in Procs : Len(inv[p].written) = 5
  /\ tree["docs/notes.md"] = OldNotes

\* The remote calls and callback attempts an invocation has issued: none.
NoSideEffects(r) ==
  /\ r.lookupStatus = 0 /\ r.createCall = "" /\ r.written = <<>> /\ r.messages = {}
  /\ r.targets = {} /\ r.headReads = 0 /\ r.attempts = 0 /\ r.sent = {}

\* C27. A request whose secret is missing or wrong is answered 403, whatever
\* its body; one with the right secret that lacks a required field or whose
\* round is not a number is answered 400; either has issued no lookup, create,
\* write or callback, and the repository is as it was.
C27_RejectedNoSideEffects ==
  \A p \in Procs :
    inv[p].pc = "done" =>
      LET badSecret == inv[p].secret # "s3cret"
          badBody == inv[p].body.missing # {} \/ ~inv[p].body.roundIsNumber
      IN  /\ badSecret =>
               /\ inv[p].response.status = 403 /\ inv[p].errorText = "invalid secret"
               /\ NoSideEffects(inv[p])
          /\ (~badSecret /\ badBody) =>
               /\ inv[p].response.status = 400 /\ NoSideEffects(inv[p])
          /\ (badSecret \/ badBody) =>
               /\ ~inv[p].response.ok /\ head = InitCommit
               /\ tree \in {EmptyTree, PriorTree}
          /\ inv[p].response.status \in {400, 403} => (badSecret \/ badBody)

\* A wrong secret with an incomplete body: 403, not 400.
C27_Witness ==
  \E p \in Procs :
    /\ inv[p].pc = "done" /\ inv[p].secret = "guess" /\ inv[p].body.missing # {}
    /\ inv[p].response.status = 403

\* C28. Every submitted request is answered in the end, with 403, 400, 200 or
\* 500; a response is sent at most once, exactly when the handler ends, and is
\* never changed afterwards.
C28_ExactlyOneResponse ==
  /\ [](\A p \in Procs :
          /\ inv[p].responses <= 1
          /\ inv[p].responses = 1 <=> inv[p].pc = "done"
          /\ inv[p].responses = 1 <=> inv[p].response.status \in {403, 400, 200, 500}
          /\ inv[p].responses = 0 => inv[p].response = NoResponse)
  /\ [][\A p \in Procs :
          inv[p].responses = 1 => inv'[p].response = inv[p].response]_vars
  /\ \A p \in Procs : (inv[p].round # 0) ~> (inv[p].responses = 1)

\* The 200 answer after six failed callback attempts.
C28_Witness ==
  \E p \in Procs :
    /\ inv[p].responses = 1 /\ inv[p].response.status = 200
    /\ inv[p].attempts = 6 /\ inv[p].notified = "failed"

====
